---- MODULE Spec2Model ----
(***************************************************************************)
(* Funding-rate arbitrage strategy (pkg/strategy/funding_rate_arb.go).     *)
(*                                                                         *)
(* The Strategy object is shared by the goroutines that execute Run.  A    *)
(* goroutine is at one of the following places (pc):                       *)
(*   start        the trade command: before config.LoadConfig              *)
(*   fatal        the trade command: log.Fatalf has ended the process      *)
(*   select       Run: the select between ticker.C and stop                *)
(*   fetch1/2     checkFundingRates: the two GetFundingRates calls         *)
(*   fetch_ret    checkFundingRates: returned after a failed fetch         *)
(*   loop         checkFundingRates: head of the range over Markets        *)
(*   eval         checkFundingRates: the body of the loop for one market   *)
(*   exec_lock    executeArbitrage: blocked on s.mu.Lock()                 *)
(*   place_long   executeArbitrage: before longEx.PlaceOrder               *)
(*   place_short  executeArbitrage: before shortEx.PlaceOrder              *)
(*   exec_ret     executeArbitrage: returned (deferred Unlock has run)     *)
(*   close_lock   closeArbitrage: blocked on s.mu.Lock()                   *)
(*   close_long   closeArbitrage: before LongExchange.ClosePosition        *)
(*   close_short  closeArbitrage: before ShortExchange.ClosePosition       *)
(*   close_ret    closeArbitrage: returned                                 *)
(*   stopped      Run has returned                                         *)
(*                                                                         *)
(* Rates and USD amounts are integers (a rate unit is one step of the      *)
(* funding-rate grid); an order amount SizeUSD / price is the pair         *)
(* <<SizeUSD, price>>.  The venues are the Exchange interface: each call   *)
(* returns an order or an error.                                           *)
(*                                                                         *)
(* Spec has one goroutine execute Run, as the trade command does; SpecConc *)
(* has Run executed by every goroutine of Runners on the one Strategy.     *)
(* Both start after NewFundingRateArb, with venues that implement the      *)
(* Exchange interface.  SpecStartup is the trade command from the start of *)
(* the process, with whatever LoadConfig yields, and with exchange1 either *)
(* the Lighter client as it is in this source tree or an implementation    *)
(* that has a funding-rate endpoint.                                       *)
(***************************************************************************)
EXTENDS Integers, Sequences, FiniteSets, TLC

\* The goroutines that execute Strategy.Run on the one Strategy.
Runners == {1, 2}

\* The goroutine of the trade command.
Main == 1

\* Largest funding rate a venue reports.
MaxRate == 2

Rates == 0..MaxRate

\* The two venue handles held by the Strategy.
exchange1 == "exchange1"
exchange2 == "exchange2"

Venues == {exchange1, exchange2}

\* Exchange.Name() of the two venue clients wired by the trade command.
Name(ex) == IF ex = exchange1 THEN "Lighter" ELSE "Extended"

Buy == "BUY"
Sell == "SELL"

\* config.Config as consumed by the strategy.
Configs ==
    { [Markets            |-> <<"BTC-USD", "ETH-USD", "SOL-USD">>,
       MinFundingRateDiff |-> 1,
       PositionSizeUSD    |-> 20,
       MaxPositionUSD     |-> mx,
       Testnet            |-> TRUE] : mx \in {30, 40} }

VARIABLES
    config,     \* Strategy.config
    positions,  \* Strategy.positions: market -> PositionInfo
    mu,         \* Strategy.mu: 0 when unlocked, else the goroutine holding it
    stop,       \* the stop channel has been closed
    ticker,     \* per goroutine: a tick is buffered in ticker.C
    pc,         \* per goroutine: place in the code
    i,          \* per goroutine: index of the range over config.Markets
    snap,       \* per goroutine: rate1, ok1, rate2, ok2 of the current market
    args,       \* per goroutine: arguments of executeArbitrage
    position,   \* per goroutine: the *PositionInfo passed to closeArbitrage
    trace,      \* per goroutine: venue calls of the current fetch or sequence
    outcome,    \* per goroutine: what the current fetch or sequence logged last
    notifier,   \* Strategy.notifier is not nil
    notes,      \* per goroutine: notifications of the current sequence
    configFile, \* what LoadConfig finds at the config path
    testnetEnv, \* the TESTNET setting that LoadConfig reads
    sendCanFail, \* bot.Send of the notifier can return an error
    ratesMap,   \* per goroutine: rates1Map and rates2Map, for the markets
                \* that the range reaches again later in the cycle
    triggered,  \* per goroutine: the markets for which this cycle has
                \* triggered a sequence and that the range reaches again
    lighter     \* exchange1 is the Lighter client of this source tree

vars == <<config, positions, mu, stop, ticker, pc, i, snap, args, position,
          trace, outcome, notifier, notes, configFile, testnetEnv,
          sendCanFail, ratesMap, triggered, lighter>>

NoSnap == [rate1 |-> 0, ok1 |-> FALSE, rate2 |-> 0, ok2 |-> FALSE]
NoArgs == [market |-> "", longEx |-> "", shortEx |-> "", rateDiff |-> 0]
NilPosition == [Market |-> "", LongExchange |-> "", ShortExchange |-> "",
                SizeUSD |-> 0]

Abs(x) == IF x < 0 THEN -x ELSE x

\* Placeholder reference price; 0 stands for "no placeholder price".
Price(market) ==
    IF market = "BTC-USD" THEN 60000
    ELSE IF market = "ETH-USD" THEN 3000
    ELSE 0

\* Mutant: the missing placeholder price is not checked.
HasPriceUnchecked(market) == TRUE

\* The market is one of those with a placeholder price.
HasPrice(market) == Price(market) # 0

\* amount := sizeUSD / currentPrice, kept as the exact quotient.
Amount(sizeUSD, market) == <<sizeUSD, Price(market)>>

RECURSIVE SumSizes(_, _)
SumSizes(ledger, keys) ==
    IF keys = {} THEN 0
    ELSE LET k == CHOOSE x \in keys : TRUE
         IN ledger[k].SizeUSD + SumSizes(ledger, keys \ {k})

getTotalPositionValue == SumSizes(positions, DOMAIN positions)

EmptyLedger == [m \in {} |-> NilPosition]

\* The lookup maps before any key is kept.
NoRates == [m \in {} |-> NoSnap]

Init ==
    /\ config \in Configs
    /\ positions = EmptyLedger
    /\ mu = 0
    /\ stop = FALSE
    /\ ticker = [r \in Runners |-> FALSE]
    /\ pc = [r \in Runners |-> "select"]
    /\ i = [r \in Runners |-> 0]
    /\ snap = [r \in Runners |-> NoSnap]
    /\ args = [r \in Runners |-> NoArgs]
    /\ position = [r \in Runners |-> NilPosition]
    /\ trace = [r \in Runners |-> <<>>]
    /\ outcome = [r \in Runners |-> ""]
    /\ notifier \in BOOLEAN
    /\ notes = [r \in Runners |-> <<>>]
    /\ configFile = "found"
    /\ testnetEnv = "true"
    /\ sendCanFail \in (IF notifier THEN BOOLEAN ELSE {FALSE})
    /\ ratesMap = [r \in Runners |-> NoRates]
    /\ triggered = [r \in Runners |-> {}]
    /\ lighter = FALSE

\* The runtime timer delivers a tick into ticker.C (capacity 1); a tick that
\* finds the buffer full is dropped.
Tick(r) ==
    /\ pc[r] \notin {"start", "fatal", "stopped"}
    /\ ~ticker[r]
    /\ ticker' = [ticker EXCEPT ![r] = TRUE]
    /\ UNCHANGED <<config, positions, mu, stop, pc, i, snap, args,
                   position, trace, outcome, notifier, configFile, notes,
                   testnetEnv, sendCanFail,
                   ratesMap, triggered, lighter>>

\* The signal goroutine of the trade command closes the stop channel.
CloseStop ==
    /\ ~stop
    /\ stop' = TRUE
    /\ UNCHANGED <<config, positions, mu, ticker, pc, i, snap, args,
                   position, trace, outcome, notifier, configFile, notes,
                   testnetEnv, sendCanFail,
                   ratesMap, triggered, lighter>>

\* Mutant: the stop case leaves the select but not the for loop.
StopCaseBreaksSelect == "select"

\* case <-stop: where the goroutine is after "Stopping strategy..." and return.
StopCase == "stopped"

\* Mutant: the stop case is taken wherever the goroutine is.
RunInterruptible(r) ==
    /\ pc[r] \notin {"start", "fatal", "stopped"}
    /\ \/ /\ pc[r] = "select"
          /\ ticker[r]
          /\ ticker' = [ticker EXCEPT ![r] = FALSE]
          /\ pc' = [pc EXCEPT ![r] = "fetch1"]
          /\ UNCHANGED outcome
       \/ /\ stop
          /\ outcome' = [outcome EXCEPT ![r] = "stopping"]
          /\ pc' = [pc EXCEPT ![r] = StopCase]
          /\ UNCHANGED ticker
    /\ UNCHANGED <<config, positions, mu, stop, i, snap, args, position,
                   trace, notifier, configFile, notes, testnetEnv,
                   sendCanFail,
                   ratesMap, triggered, lighter>>

\* Mutant: taking the tick leaves it in the buffer.
RunKeepsTick(r) ==
    /\ pc[r] = "select"
    /\ \/ /\ ticker[r]
          /\ ticker' = ticker
          /\ pc' = [pc EXCEPT ![r] = "fetch1"]
          /\ UNCHANGED outcome
       \/ /\ stop
          /\ outcome' = [outcome EXCEPT ![r] = "stopping"]
          /\ pc' = [pc EXCEPT ![r] = StopCase]
          /\ UNCHANGED ticker
    /\ UNCHANGED <<config, positions, mu, stop, i, snap, args, position,
                   trace, notifier, configFile, notes, testnetEnv,
                   sendCanFail,
                   ratesMap, triggered, lighter>>

\* Mutant: the stop case is taken only when no tick is buffered.
RunPrefersTick(r) ==
    /\ pc[r] = "select"
    /\ \/ /\ ticker[r]
          /\ ticker' = [ticker EXCEPT ![r] = FALSE]
          /\ pc' = [pc EXCEPT ![r] = "fetch1"]
          /\ UNCHANGED outcome
       \/ /\ stop /\ ~ticker[r]
          /\ outcome' = [outcome EXCEPT ![r] = "stopping"]
          /\ pc' = [pc EXCEPT ![r] = StopCase]
          /\ UNCHANGED ticker
    /\ UNCHANGED <<config, positions, mu, stop, i, snap, args, position,
                   trace, notifier, configFile, notes, testnetEnv,
                   sendCanFail,
                   ratesMap, triggered, lighter>>

\* Run: one pass of the select statement.
Run(r) ==
    /\ pc[r] = "select"
    /\ \/ /\ ticker[r]
          /\ ticker' = [ticker EXCEPT ![r] = FALSE]
          /\ pc' = [pc EXCEPT ![r] = "fetch1"]
          /\ UNCHANGED outcome
       \/ /\ stop
          /\ outcome' = [outcome EXCEPT ![r] = "stopping"]
          /\ pc' = [pc EXCEPT ![r] = StopCase]
          /\ UNCHANGED ticker
    /\ UNCHANGED <<config, positions, mu, stop, i, snap, args, position,
                   trace, notifier, configFile, notes, testnetEnv,
                   sendCanFail,
                   ratesMap, triggered, lighter>>

\* Mutant: every entry points to the one PositionInfo the insert overwrites.
MapSetShared(m, k, v) == [x \in (DOMAIN m) \cup {k} |-> v]

\* s.positions[k] = v
MapSet(m, k, v) == [x \in (DOMAIN m) \cup {k} |-> IF x = k THEN v ELSE m[x]]

\* Mutant: the entry is left in the map.
MapDeleteNothing(m, k) == m

\* delete(s.positions, k)
MapDelete(m, k) == [x \in (DOMAIN m) \ {k} |-> m[x]]

\* A call made to a venue and whether it returned an error.
Call(op, venue, market, side, amount, err) ==
    [op |-> op, venue |-> venue, market |-> market, side |-> side,
     amount |-> amount, err |-> err]

\* Mutant: ClosePosition places its order on the side it was given.
CloseSideSame(side) == side

\* ClosePosition of both venue clients: closeSide is Sell unless side is Sell.
CloseSide(side) == IF side = Sell THEN Buy ELSE Sell

\* The market order a venue call places on its venue: PlaceOrder places the
\* order it is given, ClosePosition one of the same amount on closeSide.
OrderOf(call) ==
    [venue  |-> call.venue,
     market |-> call.market,
     side   |-> IF call.op = "ClosePosition" THEN CloseSide(call.side) ELSE call.side,
     amount |-> call.amount]

\* A GetFundingRates call: it has no market, side or amount.
FetchCall(venue, err) == Call("GetFundingRates", venue, "", "", <<0, 0>>, err)

\* Mutant: the Lighter client has a funding-rate endpoint.
LighterGetFundingRatesImplemented == BOOLEAN

\* Lighter.GetFundingRates: whether it returns an error.  It is a placeholder
\* that returns an error on every call.
LighterGetFundingRates == {TRUE}

\* Whether GetFundingRates of a venue returns an error: any outcome for an
\* implementation of the Exchange interface, that of the placeholder when the
\* venue is the Lighter client.
GetFundingRates(venue) ==
    IF venue = exchange1 /\ lighter THEN LighterGetFundingRates ELSE BOOLEAN

\* Mutant: the error of GetFundingRates is ignored.
FetchFailedIgnored(err) == FALSE

\* if err != nil after a GetFundingRates call
FetchFailed(err) == err

\* checkFundingRates: s.exchange1.GetFundingRates() and its error check.
fetchRates1(r) ==
    /\ pc[r] = "fetch1"
    /\ \E err \in GetFundingRates(exchange1) :
          /\ trace' = [trace EXCEPT ![r] = Append(@, FetchCall(exchange1, err))]
          /\ IF FetchFailed(err)
             THEN /\ outcome' = [outcome EXCEPT ![r] = "fetch_failed"]
                  /\ pc' = [pc EXCEPT ![r] = "fetch_ret"]
             ELSE /\ pc' = [pc EXCEPT ![r] = "fetch2"]
                  /\ UNCHANGED outcome
    /\ UNCHANGED <<config, positions, mu, stop, ticker, i, snap, args,
                   position, notifier, configFile, notes, testnetEnv,
                   sendCanFail,
                   ratesMap, triggered, lighter>>

\* Mutant: the second fetch goes to exchange1 again.
fetchRates2FromExchange1(r) ==
    /\ pc[r] = "fetch2"
    /\ \E err \in GetFundingRates(exchange1) :
          /\ trace' = [trace EXCEPT ![r] = Append(@, FetchCall(exchange1, err))]
          /\ IF FetchFailed(err)
             THEN /\ outcome' = [outcome EXCEPT ![r] = "fetch_failed"]
                  /\ pc' = [pc EXCEPT ![r] = "fetch_ret"]
                  /\ UNCHANGED i
             ELSE /\ pc' = [pc EXCEPT ![r] = "loop"]
                  /\ i' = [i EXCEPT ![r] = 1]
                  /\ UNCHANGED outcome
    /\ UNCHANGED <<config, positions, mu, stop, ticker, snap, args,
                   position, notifier, configFile, notes, testnetEnv,
                   sendCanFail,
                   ratesMap, triggered, lighter>>

\* checkFundingRates: s.exchange2.GetFundingRates(), its error check, and the
\* two lookup maps.
fetchRates2(r) ==
    /\ pc[r] = "fetch2"
    /\ \E err \in GetFundingRates(exchange2) :
          /\ trace' = [trace EXCEPT ![r] = Append(@, FetchCall(exchange2, err))]
          /\ IF FetchFailed(err)
             THEN /\ outcome' = [outcome EXCEPT ![r] = "fetch_failed"]
                  /\ pc' = [pc EXCEPT ![r] = "fetch_ret"]
                  /\ UNCHANGED i
             ELSE /\ pc' = [pc EXCEPT ![r] = "loop"]
                  /\ i' = [i EXCEPT ![r] = 1]
                  /\ UNCHANGED outcome
    /\ UNCHANGED <<config, positions, mu, stop, ticker, snap, args,
                   position, notifier, configFile, notes, testnetEnv,
                   sendCanFail,
                   ratesMap, triggered, lighter>>

\* Mutant: Run returns when a fetch has failed.
fetchReturnEndsRun(r) ==
    /\ pc[r] = "fetch_ret"
    /\ pc' = [pc EXCEPT ![r] = "stopped"]
    /\ trace' = [trace EXCEPT ![r] = <<>>]
    /\ outcome' = [outcome EXCEPT ![r] = ""]
    /\ UNCHANGED <<config, positions, mu, stop, ticker, i, snap, args,
                   position, notifier, configFile, notes, testnetEnv,
                   sendCanFail,
                   ratesMap, triggered, lighter>>

\* Run: checkFundingRates has returned after a failed fetch; back to the
\* select.
fetchReturn(r) ==
    /\ pc[r] = "fetch_ret"
    /\ pc' = [pc EXCEPT ![r] = "select"]
    /\ trace' = [trace EXCEPT ![r] = <<>>]
    /\ outcome' = [outcome EXCEPT ![r] = ""]
    /\ UNCHANGED <<config, positions, mu, stop, ticker, i, snap, args,
                   position, notifier, configFile, notes, testnetEnv,
                   sendCanFail,
                   ratesMap, triggered, lighter>>

\* The market of the iteration goroutine r is in comes up again later in
\* the range over config.Markets.
Recurs(r) ==
    \E k \in DOMAIN config.Markets :
        k > i[r] /\ config.Markets[k] = config.Markets[i[r]]

\* checkFundingRates: the range over config.Markets and the two map reads
\* rates1Map[market], rates2Map[market].  What the snapshots hold for the
\* market is an input, the same for every read of the market in one cycle; a
\* missing key reads as (0, false).  The record of the two fetch calls ends
\* here, and the maps end with the cycle.
rangeMarkets(r) ==
    /\ pc[r] = "loop"
    /\ IF i[r] > Len(config.Markets)
       THEN /\ pc' = [pc EXCEPT ![r] = "select"]
            /\ i' = [i EXCEPT ![r] = 0]
            /\ ratesMap' = [ratesMap EXCEPT ![r] = NoRates]
            /\ triggered' = [triggered EXCEPT ![r] = {}]
            /\ UNCHANGED snap
       ELSE /\ \E ok1 \in BOOLEAN, ok2 \in BOOLEAN, rate1 \in Rates, rate2 \in Rates :
                  LET market == config.Markets[i[r]]
                      read   == [rate1 |-> rate1, ok1 |-> ok1,
                                 rate2 |-> rate2, ok2 |-> ok2]
                  IN  /\ (~ok1 => rate1 = 0)
                      /\ (~ok2 => rate2 = 0)
                      /\ market \in DOMAIN ratesMap[r] => read = ratesMap[r][market]
                      /\ snap' = [snap EXCEPT ![r] = read]
                      /\ ratesMap' = [ratesMap EXCEPT ![r] =
                                        IF Recurs(r)
                                        THEN [m \in DOMAIN ratesMap[r] \cup {market} |->
                                                IF m = market THEN read
                                                ELSE ratesMap[r][m]]
                                        ELSE @]
            /\ pc' = [pc EXCEPT ![r] = "eval"]
            /\ UNCHANGED <<i, triggered>>
    /\ trace' = [trace EXCEPT ![r] = <<>>]
    /\ UNCHANGED <<config, positions, mu, stop, ticker, args, position,
                   outcome, notifier, configFile, notes, testnetEnv,
                   sendCanFail, lighter>>

\* Mutant: a market is skipped only when both venues lack it.
MarketAbsentBoth(ok1, ok2) == ~ok1 /\ ~ok2

\* if !ok1 || !ok2
MarketAbsent(ok1, ok2) == ~ok1 \/ ~ok2

\* Mutant: the open threshold is not strict.
OpenConditionNonStrict(exists, diff) ==
    ~exists /\ Abs(diff) >= config.MinFundingRateDiff

\* if !exists && math.Abs(diff) > s.config.MinFundingRateDiff
OpenCondition(exists, diff) ==
    ~exists /\ Abs(diff) > config.MinFundingRateDiff

\* Mutant: the long leg goes to the venue with the higher rate.
LongVenueHigher(diff) == IF diff > 0 THEN exchange1 ELSE exchange2

\* The longEx argument chosen by the two executeArbitrage calls.
LongVenue(diff) == IF diff > 0 THEN exchange2 ELSE exchange1

\* The shortEx argument chosen by the two executeArbitrage calls.
ShortVenue(diff) == IF diff > 0 THEN exchange1 ELSE exchange2

\* Mutant: a flat spread does not close.
shouldCloseStrict(pos, diff) ==
    \/ Name(pos.ShortExchange) = Name(exchange1) /\ diff < 0
    \/ Name(pos.ShortExchange) = Name(exchange2) /\ diff > 0

\* Mutant: a spread that no longer exceeds the threshold closes.
shouldCloseBelowThreshold(pos, diff) ==
    \/ Name(pos.ShortExchange) = Name(exchange1)
          /\ diff <= config.MinFundingRateDiff
    \/ Name(pos.ShortExchange) = Name(exchange2)
          /\ diff >= -config.MinFundingRateDiff

\* shouldClose: Case 1 and Case 2 of the close condition.
shouldClose(pos, diff) ==
    \/ Name(pos.ShortExchange) = Name(exchange1) /\ diff <= 0
    \/ Name(pos.ShortExchange) = Name(exchange2) /\ diff >= 0

\* Mutant: the lookup reads the map without taking the lock.
LookupWithoutLock == TRUE

\* s.mu.Lock() before the lookup s.positions[market]: it returns when no
\* goroutine holds the lock (the Unlock follows in the same step).
LookupLock == mu = 0

\* checkFundingRates: the body of the loop for the market at index i, from the
\* availability check through the locked ledger lookup to the decision.
checkMarket(r) ==
    /\ pc[r] = "eval"
    /\ LET market == config.Markets[i[r]]
           diff   == snap[r].rate1 - snap[r].rate2
           exists == market \in DOMAIN positions
       IN  IF MarketAbsent(snap[r].ok1, snap[r].ok2)
           THEN /\ pc' = [pc EXCEPT ![r] = "loop"]
                /\ i' = [i EXCEPT ![r] = @ + 1]
                /\ UNCHANGED <<args, position, triggered>>
           ELSE /\ LookupLock
                /\ IF OpenCondition(exists, diff)
                   THEN /\ pc' = [pc EXCEPT ![r] = "exec_lock"]
                        /\ args' = [args EXCEPT ![r] =
                                      [market   |-> market,
                                       longEx   |-> LongVenue(diff),
                                       shortEx  |-> ShortVenue(diff),
                                       rateDiff |-> Abs(diff)]]
                        /\ triggered' = [triggered EXCEPT ![r] =
                                           IF Recurs(r) THEN @ \cup {market}
                                           ELSE @]
                        /\ UNCHANGED <<i, position>>
                   ELSE IF exists /\ shouldClose(positions[market], diff)
                   THEN /\ pc' = [pc EXCEPT ![r] = "close_lock"]
                        /\ position' = [position EXCEPT ![r] = positions[market]]
                        /\ triggered' = [triggered EXCEPT ![r] =
                                           IF Recurs(r) THEN @ \cup {market}
                                           ELSE @]
                        /\ UNCHANGED <<i, args>>
                   ELSE /\ pc' = [pc EXCEPT ![r] = "loop"]
                        /\ i' = [i EXCEPT ![r] = @ + 1]
                        /\ UNCHANGED <<args, position, triggered>>
    /\ snap' = [snap EXCEPT ![r] = NoSnap]
    /\ UNCHANGED <<config, positions, mu, stop, ticker, trace, outcome,
                   notifier, configFile, notes, testnetEnv, sendCanFail,
                   ratesMap, lighter>>

\* Mutant: the duplicate re-check is missing.
AlreadyOpenUnchecked(market) == FALSE

\* if _, exists := s.positions[market]; exists
AlreadyOpen(market) == market \in DOMAIN positions

\* Mutant: the exposure check forgets the size of the new position.
ExceedsMaxWithoutNew(total) == total > config.MaxPositionUSD

\* Mutant: the exposure check rejects a sum equal to the cap.
ExceedsMaxNonStrict(total) ==
    total + config.PositionSizeUSD >= config.MaxPositionUSD

\* if s.getTotalPositionValue()+s.config.PositionSizeUSD > s.config.MaxPositionUSD
ExceedsMax(total) == total + config.PositionSizeUSD > config.MaxPositionUSD

\* Mutant: the Market field is not the market of the opening sequence.
NewPositionInfoFixedMarket(market, longEx, shortEx) ==
    [Market |-> "BTC-USD", LongExchange |-> longEx, ShortExchange |-> shortEx,
     SizeUSD |-> config.PositionSizeUSD]

\* &PositionInfo{Market: market, LongExchange: longEx, ...}
NewPositionInfo(market, longEx, shortEx) ==
    [Market |-> market, LongExchange |-> longEx, ShortExchange |-> shortEx,
     SizeUSD |-> config.PositionSizeUSD]

\* SendPositionNotification(action, exchangeName, market, size, err).
Notification(action, exchangeName, market, size, err) ==
    [action |-> action, exchange |-> exchangeName, market |-> market,
     size |-> size, failed |-> err]

\* What bot.Send can return in SendMessage: delivered or an error.
SendResults == IF sendCanFail THEN BOOLEAN ELSE {TRUE}

\* What a SendPositionNotification call adds to the notifications sent: a nil
\* notifier returns at once; otherwise the message goes to SendMessage, which
\* only logs an error of bot.Send.
Notify(sent, note, delivered) ==
    IF notifier THEN Append(sent, [message |-> note, delivered |-> delivered])
    ELSE sent

\* Mutant: the lock is released after the checks, before the orders.
UnlockAfterChecks(r) == 0

\* defer s.mu.Unlock(): who holds the lock while goroutine r places its orders.
DeferredUnlock(r) == r

\* executeArbitrage: s.mu.Lock(), the duplicate check, the exposure check and
\* the placeholder price.  A return runs the deferred Unlock.
executeArbitrage(r) ==
    /\ pc[r] = "exec_lock"
    /\ mu = 0
    /\ IF AlreadyOpen(args[r].market)
       THEN /\ outcome' = [outcome EXCEPT ![r] = "already_open"]
            /\ pc' = [pc EXCEPT ![r] = "exec_ret"]
            /\ UNCHANGED mu
       ELSE IF ExceedsMax(getTotalPositionValue)
       THEN /\ outcome' = [outcome EXCEPT ![r] = "max_exceeded"]
            /\ pc' = [pc EXCEPT ![r] = "exec_ret"]
            /\ UNCHANGED mu
       ELSE IF ~HasPrice(args[r].market)
       THEN /\ outcome' = [outcome EXCEPT ![r] = "no_price"]
            /\ pc' = [pc EXCEPT ![r] = "exec_ret"]
            /\ UNCHANGED mu
       ELSE /\ outcome' = [outcome EXCEPT ![r] = "placing"]
            /\ pc' = [pc EXCEPT ![r] = "place_long"]
            /\ mu' = DeferredUnlock(r)
    /\ UNCHANGED <<config, positions, stop, ticker, i, snap, args,
                   position, trace, notifier, configFile, notes,
                   testnetEnv, sendCanFail,
                   ratesMap, triggered, lighter>>

\* Mutant: a return of executeArbitrage leaves the lock with the goroutine.
NoUnlockOnReturn(r) == r

\* The deferred s.mu.Unlock() runs when executeArbitrage returns after a
\* placement: who holds the lock afterwards.
UnlockOnReturn(r) == 0

\* Mutant: the error of the long PlaceOrder is ignored.
LongFailedIgnored(err) == FALSE

\* if err != nil after the long PlaceOrder
LongFailed(err) == err

\* Mutant: the error of the short PlaceOrder is ignored.
ShortFailedIgnored(err) == FALSE

\* if err != nil after the short PlaceOrder
ShortFailed(err) == err

\* Mutant: a notification that cannot be sent ends the opening sequence.
placeLongNeedsNotification(r) ==
    /\ pc[r] = "place_long"
    /\ \E err \in BOOLEAN, delivered \in SendResults :
          /\ trace' = [trace EXCEPT ![r] = Append(@,
                         Call("PlaceOrder", args[r].longEx, args[r].market, Buy,
                              Amount(config.PositionSizeUSD, args[r].market), err))]
          /\ notes' = [notes EXCEPT ![r] = Notify(@,
                         Notification("OPEN LONG", Name(args[r].longEx),
                                      args[r].market, config.PositionSizeUSD, err), delivered)]
          /\ IF LongFailed(err) \/ (notifier /\ ~delivered)
             THEN /\ outcome' = [outcome EXCEPT ![r] = "long_failed"]
                  /\ pc' = [pc EXCEPT ![r] = "exec_ret"]
                  /\ mu' = UnlockOnReturn(r)
             ELSE /\ outcome' = [outcome EXCEPT ![r] = "long_placed"]
                  /\ pc' = [pc EXCEPT ![r] = "place_short"]
                  /\ UNCHANGED mu
    /\ UNCHANGED <<config, positions, stop, ticker, i, snap, args,
                   position, notifier, configFile, testnetEnv, sendCanFail,
                   ratesMap, triggered, lighter>>

\* executeArbitrage: longEx.PlaceOrder(market, Buy, Market, amount, price) and
\* its error check.
placeLong(r) ==
    /\ pc[r] = "place_long"
    /\ \E err \in BOOLEAN, delivered \in SendResults :
          /\ trace' = [trace EXCEPT ![r] = Append(@,
                         Call("PlaceOrder", args[r].longEx, args[r].market, Buy,
                              Amount(config.PositionSizeUSD, args[r].market), err))]
          /\ notes' = [notes EXCEPT ![r] = Notify(@,
                         Notification("OPEN LONG", Name(args[r].longEx),
                                      args[r].market, config.PositionSizeUSD, err), delivered)]
          /\ IF LongFailed(err)
             THEN /\ outcome' = [outcome EXCEPT ![r] = "long_failed"]
                  /\ pc' = [pc EXCEPT ![r] = "exec_ret"]
                  /\ mu' = UnlockOnReturn(r)
             ELSE /\ outcome' = [outcome EXCEPT ![r] = "long_placed"]
                  /\ pc' = [pc EXCEPT ![r] = "place_short"]
                  /\ UNCHANGED mu
    /\ UNCHANGED <<config, positions, stop, ticker, i, snap, args,
                   position, notifier, configFile, testnetEnv, sendCanFail,
                   ratesMap, triggered, lighter>>

\* executeArbitrage: shortEx.PlaceOrder(market, Sell, Market, amount, price),
\* its error check, and the insert of the new PositionInfo.
placeShort(r) ==
    /\ pc[r] = "place_short"
    /\ \E err \in BOOLEAN, delivered \in SendResults :
          /\ trace' = [trace EXCEPT ![r] = Append(@,
                         Call("PlaceOrder", args[r].shortEx, args[r].market, Sell,
                              Amount(config.PositionSizeUSD, args[r].market), err))]
          /\ notes' = [notes EXCEPT ![r] = Notify(@,
                         Notification("OPEN SHORT", Name(args[r].shortEx),
                                      args[r].market, config.PositionSizeUSD, err), delivered)]
          /\ IF ShortFailed(err)
             THEN /\ outcome' = [outcome EXCEPT ![r] = "short_failed_critical"]
                  /\ UNCHANGED positions
             ELSE /\ outcome' = [outcome EXCEPT ![r] = "opened"]
                  /\ positions' = MapSet(positions, args[r].market,
                                         NewPositionInfo(args[r].market,
                                                         args[r].longEx,
                                                         args[r].shortEx))
    /\ pc' = [pc EXCEPT ![r] = "exec_ret"]
    /\ mu' = UnlockOnReturn(r)
    /\ UNCHANGED <<config, stop, ticker, i, snap, args, position, notifier,
                   configFile, testnetEnv, sendCanFail,
                   ratesMap, triggered, lighter>>

\* checkFundingRates: executeArbitrage has returned; next market.
executeReturn(r) ==
    /\ pc[r] = "exec_ret"
    /\ pc' = [pc EXCEPT ![r] = "loop"]
    /\ i' = [i EXCEPT ![r] = @ + 1]
    /\ args' = [args EXCEPT ![r] = NoArgs]
    /\ trace' = [trace EXCEPT ![r] = <<>>]
    /\ notes' = [notes EXCEPT ![r] = <<>>]
    /\ outcome' = [outcome EXCEPT ![r] = ""]
    /\ UNCHANGED <<config, positions, mu, stop, ticker, snap, position,
                   notifier, configFile, testnetEnv, sendCanFail,
                   ratesMap, triggered, lighter>>

\* Mutant: the existence re-check is missing.
AlreadyClosedUnchecked(market) == FALSE

\* if _, exists := s.positions[position.Market]; !exists
AlreadyClosed(market) == market \notin DOMAIN positions

\* Mutant: the closing sequence has a placeholder price for BTC-USD only.
ClosePriceBTCOnly(market) == IF market = "BTC-USD" THEN 60000 ELSE 0

\* closeArbitrage: its own placeholder price chain; 0 stands for the else
\* branch that logs and returns.
ClosePrice(market) ==
    IF market = "BTC-USD" THEN 60000
    ELSE IF market = "ETH-USD" THEN 3000
    ELSE 0

\* closeArbitrage: amount := position.SizeUSD / currentPrice.
CloseAmount(sizeUSD, market) == <<sizeUSD, ClosePrice(market)>>

\* Mutant: the Unlock is deferred to the return of closeArbitrage.
UnlockAtReturn(r) == r

\* s.mu.Unlock() right after the delete: who holds the lock afterwards.
UnlockAfterDelete(r) == 0

\* closeArbitrage: the locked check-and-delete, and the placeholder price.
closeArbitrage(r) ==
    /\ pc[r] = "close_lock"
    /\ mu = 0
    /\ IF AlreadyClosed(position[r].Market)
       THEN /\ outcome' = [outcome EXCEPT ![r] = "already_closed"]
            /\ pc' = [pc EXCEPT ![r] = "close_ret"]
            /\ mu' = 0
            /\ UNCHANGED positions
       ELSE /\ positions' = MapDelete(positions, position[r].Market)
            /\ mu' = UnlockAfterDelete(r)
            /\ IF ClosePrice(position[r].Market) = 0
               THEN /\ outcome' = [outcome EXCEPT ![r] = "no_price"]
                    /\ pc' = [pc EXCEPT ![r] = "close_ret"]
               ELSE /\ outcome' = [outcome EXCEPT ![r] = "closing"]
                    /\ pc' = [pc EXCEPT ![r] = "close_long"]
    /\ UNCHANGED <<config, stop, ticker, i, snap, args, position,
                   trace, notifier, configFile, notes, testnetEnv,
                   sendCanFail,
                   ratesMap, triggered, lighter>>

\* Mutant: closeArbitrage returns when the close of the long leg fails.
AfterLongCloseReturns(err) == IF err THEN "close_ret" ELSE "close_short"

\* if longCloseErr != nil { log } else { log }: both branches go on to the
\* close of the short leg.
AfterLongClose(err) == "close_short"

\* closeArbitrage: position.LongExchange.ClosePosition(Market, Buy, amount).
closeLong(r) ==
    /\ pc[r] = "close_long"
    /\ \E err \in BOOLEAN, delivered \in SendResults :
          /\ trace' = [trace EXCEPT ![r] = Append(@,
                         Call("ClosePosition", position[r].LongExchange,
                              position[r].Market, Buy,
                              CloseAmount(position[r].SizeUSD, position[r].Market), err))]
          /\ notes' = [notes EXCEPT ![r] = Notify(@,
                         Notification("CLOSE LONG", Name(position[r].LongExchange),
                                      position[r].Market, position[r].SizeUSD, err), delivered)]
          /\ pc' = [pc EXCEPT ![r] = AfterLongClose(err)]
    /\ UNCHANGED <<config, positions, mu, stop, ticker, i, snap, args,
                   position, outcome, notifier, configFile, testnetEnv,
                   sendCanFail,
                   ratesMap, triggered, lighter>>

\* closeArbitrage: position.ShortExchange.ClosePosition(Market, Sell, amount).
closeShort(r) ==
    /\ pc[r] = "close_short"
    /\ \E err \in BOOLEAN, delivered \in SendResults :
          /\ trace' = [trace EXCEPT ![r] = Append(@,
                         Call("ClosePosition", position[r].ShortExchange,
                              position[r].Market, Sell,
                              CloseAmount(position[r].SizeUSD, position[r].Market), err))]
          /\ notes' = [notes EXCEPT ![r] = Notify(@,
                         Notification("CLOSE SHORT", Name(position[r].ShortExchange),
                                      position[r].Market, position[r].SizeUSD, err), delivered)]
    /\ outcome' = [outcome EXCEPT ![r] = "closed"]
    /\ pc' = [pc EXCEPT ![r] = "close_ret"]
    /\ UNCHANGED <<config, positions, mu, stop, ticker, i, snap, args,
                   position, notifier, configFile, testnetEnv, sendCanFail,
                   ratesMap, triggered, lighter>>

\* checkFundingRates: closeArbitrage has returned; next market.
closeReturn(r) ==
    /\ pc[r] = "close_ret"
    /\ pc' = [pc EXCEPT ![r] = "loop"]
    /\ i' = [i EXCEPT ![r] = @ + 1]
    /\ position' = [position EXCEPT ![r] = NilPosition]
    /\ trace' = [trace EXCEPT ![r] = <<>>]
    /\ notes' = [notes EXCEPT ![r] = <<>>]
    /\ outcome' = [outcome EXCEPT ![r] = ""]
    /\ UNCHANGED <<config, positions, mu, stop, ticker, snap, args,
                   notifier, configFile, testnetEnv, sendCanFail,
                   ratesMap, triggered, lighter>>

\* One step of goroutine r other than the delivery of a tick.
Work(r) ==
    \/ Run(r)
    \/ fetchRates1(r)
    \/ fetchRates2(r)
    \/ fetchReturn(r)
    \/ rangeMarkets(r)
    \/ checkMarket(r)
    \/ executeArbitrage(r)
    \/ placeLong(r)
    \/ placeShort(r)
    \/ executeReturn(r)
    \/ closeArbitrage(r)
    \/ closeLong(r)
    \/ closeShort(r)
    \/ closeReturn(r)

\* Mutant: the trade command starts Run on two goroutines.
NextTwoRuns == CloseStop \/ \E r \in Runners : (Tick(r) \/ Work(r))

\* The trade command: one goroutine executes Run.
Next == CloseStop \/ Tick(Main) \/ Work(Main)

Spec == Init /\ [][Next]_vars

\* A tick delivered while goroutine r waits in the select.  A tick delivered
\* during a cycle stays buffered until the select is reached again, so for
\* everything but the buffer itself it is the same as one delivered there.
TickAtSelect(r) == pc[r] = "select" /\ Tick(r)

\* Run executed by several goroutines on the same Strategy.
NextConc == CloseStop \/ \E r \in Runners : (TickAtSelect(r) \/ Work(r))

\* The concurrent runs have a notifier whose sends are delivered: with a nil
\* one every step is the same except that notes stays empty, and a failed send
\* differs in the delivered field of its note only.
InitConc == Init /\ notifier /\ ~sendCanFail

\* Run takes the stop case.
RunStop(r) == Run(r) /\ outcome'[r] = "stopping"

\* The trade command with its scheduling: the goroutine keeps running and its
\* venue calls return; the select chooses among its ready cases at random,
\* so a case that is ready again and again is taken in the end.
SpecLive == Spec /\ WF_vars(Work(Main)) /\ SF_vars(RunStop(Main))

SpecConc == InitConc /\ [][NextConc]_vars

\* What LoadConfig can find at the config path.
ConfigFiles == {"found", "not_found", "malformed"}

\* What viper.Unmarshal can yield for the fields the strategy consumes: a key
\* that is not set leaves the zero value.
LoadedConfigs ==
    { [Markets            |-> mk,
       MinFundingRateDiff |-> 1,
       PositionSizeUSD    |-> sz,
       MaxPositionUSD     |-> mx,
       Testnet            |-> ts] :
         mk \in {<<>>, <<"BTC-USD", "ETH-USD", "SOL-USD">>,
                 <<"BTC-USD", "BTC-USD">>},
         sz \in {0, 20},
         mx \in {0, 30},
         ts \in BOOLEAN }

\* The TESTNET key: absent, or set to true or to false.
TestnetSettings == {"unset", "true", "false"}

\* Config.Testnet after viper.Unmarshal: no default is registered for the
\* key, so an absent key leaves the zero value of bool.
UnmarshalTestnet(setting) == setting = "true"

\* LoadConfig returns an error: ReadInConfig failed with something other than
\* ConfigFileNotFoundError.
LoadConfigFails(file) == file = "malformed"

\* The trade command up to arbStrategy.Run(stop): LoadConfig, log.Fatalf on
\* its error, otherwise the clients and the strategy are built and Run starts.
TradeCmd(r) ==
    /\ pc[r] = "start"
    /\ pc' = [pc EXCEPT ![r] = IF LoadConfigFails(configFile) THEN "fatal"
                                ELSE "select"]
    /\ UNCHANGED <<config, positions, mu, stop, ticker, i, snap, args,
                   position, trace, outcome, notifier, notes, configFile,
                   testnetEnv, sendCanFail,
                   ratesMap, triggered, lighter>>

\* The process before the trade command has run.
InitStartup ==
    /\ testnetEnv \in TestnetSettings
    /\ config \in {c \in LoadedConfigs : c.Testnet = UnmarshalTestnet(testnetEnv)}
    /\ configFile \in ConfigFiles
    /\ positions = EmptyLedger
    /\ mu = 0
    /\ stop = FALSE
    /\ ticker = [r \in Runners |-> FALSE]
    /\ pc = [r \in Runners |-> IF r = Main THEN "start" ELSE "select"]
    /\ i = [r \in Runners |-> 0]
    /\ snap = [r \in Runners |-> NoSnap]
    /\ args = [r \in Runners |-> NoArgs]
    /\ position = [r \in Runners |-> NilPosition]
    /\ trace = [r \in Runners |-> <<>>]
    /\ outcome = [r \in Runners |-> ""]
    /\ notifier \in BOOLEAN
    /\ notes = [r \in Runners |-> <<>>]
    /\ sendCanFail = FALSE
    /\ ratesMap = [r \in Runners |-> NoRates]
    /\ triggered = [r \in Runners |-> {}]
    /\ lighter \in BOOLEAN

NextStartup == TradeCmd(Main) \/ Next

SpecStartup == InitStartup /\ [][NextStartup]_vars

(***************************************************************************)
(* Properties                                                              *)
(***************************************************************************)

\* The market of the loop iteration goroutine r is in.
CurrentMarket(r) == config.Markets[i[r]]

\* rate1 - rate2 of the loop iteration goroutine r is in.
CurrentDiff(r) == snap[r].rate1 - snap[r].rate2

\* Goroutine r leaves the body of the loop for a market both venues report.
Evaluates(r) ==
    pc[r] = "eval" /\ pc'[r] # "eval" /\ snap[r].ok1 /\ snap[r].ok2

\* The last venue call of goroutine r after the step.
LastCall(r) == trace'[r][Len(trace'[r])]

\* C1: in every reachable state, under any interleaving of cycles, opening
\* and closing sequences, the ledger holds at most one PositionInfo per
\* market.
C1_AtMostOnePositionPerMarket ==
    \A m \in {config.Markets[k] : k \in DOMAIN config.Markets} :
        Cardinality({k \in DOMAIN positions : positions[k].Market = m}) <= 1

\* Two markets are open at once, each with its own PositionInfo.
C1_Witness ==
    /\ DOMAIN positions = {"BTC-USD", "ETH-USD"}
    /\ positions["BTC-USD"].Market # positions["ETH-USD"].Market

\* C2: starting from an empty ledger, the sum of SizeUSD over the ledger
\* never exceeds config.MaxPositionUSD.
C2_ExposureWithinCap == getTotalPositionValue <= config.MaxPositionUSD

\* A successful open has brought the total exposure exactly to the cap.
C2_Witness ==
    /\ getTotalPositionValue = config.MaxPositionUSD
    /\ \E r \in Runners : pc[r] = "exec_ret" /\ outcome[r] = "opened"

\* C3: when both venues report market M, the evaluator triggers an opening
\* sequence for M iff the ledger has no entry for M and
\* |rate1 - rate2| > MinFundingRateDiff (strictly).
C3_OpenTrigger ==
    [][\A r \in Runners :
          Evaluates(r) =>
              ((pc'[r] = "exec_lock") <=>
                   (/\ CurrentMarket(r) \notin DOMAIN positions
                    /\ Abs(CurrentDiff(r)) > config.MinFundingRateDiff))]_vars

\* An opening sequence has been triggered by a spread above the threshold.
C3_Witness ==
    \E r \in Runners :
        pc[r] = "exec_lock" /\ args[r].rateDiff > config.MinFundingRateDiff

\* C4: when an opening sequence is triggered with diff = rate1 - rate2, the
\* long leg goes to exchange2 and the short leg to exchange1 if diff > 0, and
\* the long leg to exchange1 and the short leg to exchange2 if diff < 0; the
\* BUY order is placed on the long venue and the SELL order on the short one.
C4_Direction ==
    /\ [][\A r \in Runners :
             (pc[r] = "eval" /\ pc'[r] = "exec_lock") =>
                 /\ CurrentDiff(r) > 0 =>
                        /\ args'[r].longEx = exchange2
                        /\ args'[r].shortEx = exchange1
                 /\ CurrentDiff(r) < 0 =>
                        /\ args'[r].longEx = exchange1
                        /\ args'[r].shortEx = exchange2]_vars
    /\ [](\A r \in Runners : \A k \in DOMAIN trace[r] :
             trace[r][k].op = "PlaceOrder" =>
                 trace[r][k].venue = (IF trace[r][k].side = Buy
                                      THEN args[r].longEx
                                      ELSE args[r].shortEx))

\* Both legs of a sequence with the long leg on exchange2 have been placed.
C4_Witness ==
    \E r \in Runners :
        /\ pc[r] = "exec_ret"
        /\ Len(trace[r]) = 2
        /\ trace[r][1].venue = exchange2
        /\ trace[r][2].venue = exchange1

C6_AbsentMarketSkipped ==
    [][\A r \in Runners :
          (/\ pc[r] = "eval"
           /\ pc'[r] # "eval"
           /\ ~(snap[r].ok1 /\ snap[r].ok2)) =>
              /\ pc'[r] = "loop"
              /\ i'[r] = i[r] + 1
              /\ positions' = positions
              /\ trace' = trace
              /\ mu' = mu]_vars

\* A market with an open position is reported by one venue only.
C6_Witness ==
    \E r \in Runners :
        /\ pc[r] = "eval"
        /\ snap[r].ok1
        /\ ~snap[r].ok2
        /\ CurrentMarket(r) \in DOMAIN positions

\* C7: no opening sequence is at (or past) an order placement for market M
\* while the ledger holds an entry for M, also when a concurrent opening
\* sequence inserted the entry after the evaluator's lookup.
C7_DuplicateOpenGuard ==
    \A r \in Runners :
        pc[r] \in {"place_long", "place_short"} =>
            args[r].market \notin DOMAIN positions

\* The re-check has stopped an opening sequence whose market was opened by
\* another goroutine after the evaluator's lookup, before any order.
C7_Witness ==
    \E r \in Runners :
        /\ pc[r] = "exec_ret"
        /\ outcome[r] = "already_open"
        /\ trace[r] = <<>>
        /\ args[r].market \in DOMAIN positions

\* C8: past the duplicate check, an opening sequence aborts on exposure
\* exactly when total + PositionSizeUSD > MaxPositionUSD (strictly); the
\* abort places no order, leaves the ledger unchanged and releases the lock.
C8_ExposureRejection ==
    [][\A r \in Runners :
          (/\ pc[r] = "exec_lock"
           /\ pc'[r] # "exec_lock"
           /\ args[r].market \notin DOMAIN positions) =>
              LET over == getTotalPositionValue + config.PositionSizeUSD
                              > config.MaxPositionUSD
              IN  /\ (outcome'[r] = "max_exceeded") <=> over
                  /\ over => /\ pc'[r] = "exec_ret"
                             /\ trace'[r] = <<>>
                             /\ positions' = positions
                             /\ mu' = 0]_vars

\* An opening sequence has been rejected by the exposure check.
C8_Witness ==
    \E r \in Runners :
        /\ pc[r] = "exec_ret"
        /\ outcome[r] = "max_exceeded"
        /\ getTotalPositionValue > 0
        /\ mu = 0

\* C9: if the long-leg placement fails, the short leg is not attempted in
\* that sequence and the ledger has no entry for the market afterwards.
C9_LongFailure ==
    /\ [][\A r \in Runners :
             (pc[r] = "place_long" /\ pc'[r] # "place_long" /\ LastCall(r).err) =>
                 /\ pc'[r] = "exec_ret"
                 /\ positions' = positions
                 /\ args[r].market \notin DOMAIN positions']_vars
    /\ [](\A r \in Runners :
             (/\ Len(trace[r]) >= 1
              /\ trace[r][1].op = "PlaceOrder"
              /\ trace[r][1].err) => Len(trace[r]) = 1)

\* An opening sequence has ended on a failed long leg.
C9_Witness ==
    \E r \in Runners :
        /\ pc[r] = "exec_ret"
        /\ outcome[r] = "long_failed"
        /\ trace[r][1].err

\* C10: if the long leg succeeds and the short-leg placement fails, no
\* PositionInfo is recorded, no further venue call (close, cancel, opposite
\* order) follows the two placements, and the sequence ends with the critical
\* outcome.
C10_ShortFailure ==
    /\ [][\A r \in Runners :
             (pc[r] = "place_short" /\ pc'[r] # "place_short" /\ LastCall(r).err) =>
                 /\ pc'[r] = "exec_ret"
                 /\ outcome'[r] = "short_failed_critical"
                 /\ positions' = positions
                 /\ args[r].market \notin DOMAIN positions']_vars
    /\ [](\A r \in Runners :
             (pc[r] = "exec_ret" /\ outcome[r] = "short_failed_critical") <=>
                 (/\ Len(trace[r]) = 2
                  /\ trace[r][1] = Call("PlaceOrder", args[r].longEx, args[r].market,
                                        Buy, Amount(config.PositionSizeUSD,
                                                    args[r].market), FALSE)
                  /\ trace[r][2] = Call("PlaceOrder", args[r].shortEx, args[r].market,
                                        Sell, Amount(config.PositionSizeUSD,
                                                     args[r].market), TRUE)))

\* An opening sequence has ended with a placed long leg and a failed short.
C10_Witness ==
    \E r \in Runners :
        /\ pc[r] = "exec_ret"
        /\ outcome[r] = "short_failed_critical"
        /\ ~trace[r][1].err
        /\ trace[r][2].err

\* The ledger entry of market m is new or has changed in the step.
Written(m) ==
    m \in DOMAIN positions' /\ (m \notin DOMAIN positions \/ positions'[m] # positions[m])

\* C11: a PositionInfo for market M enters the ledger only in the step that
\* ends an opening sequence for M whose long placement and then whose short
\* placement succeeded, with the venues and size of that sequence; a SELL
\* order is never placed before the BUY order of its sequence has succeeded;
\* and an entry that is in the ledger is not modified until it is removed.
C11_InsertOnlyAfterBothLegs ==
    /\ [][\A m \in DOMAIN positions' :
             Written(m) =>
                 /\ m \notin DOMAIN positions
                 /\ \E r \in Runners :
                       /\ pc[r] = "place_short"
                       /\ pc'[r] = "exec_ret"
                       /\ args[r].market = m
                       /\ trace'[r] =
                            << Call("PlaceOrder", args[r].longEx, m, Buy,
                                    Amount(config.PositionSizeUSD, m), FALSE),
                               Call("PlaceOrder", args[r].shortEx, m, Sell,
                                    Amount(config.PositionSizeUSD, m), FALSE) >>
                       /\ positions'[m] = [Market        |-> m,
                                           LongExchange  |-> args[r].longEx,
                                           ShortExchange |-> args[r].shortEx,
                                           SizeUSD       |-> config.PositionSizeUSD]]_vars
    /\ [](\A r \in Runners : \A k \in DOMAIN trace[r] :
             (trace[r][k].op = "PlaceOrder" /\ trace[r][k].side = Sell) =>
                 /\ k = 2
                 /\ trace[r][1].op = "PlaceOrder"
                 /\ trace[r][1].side = Buy
                 /\ ~trace[r][1].err)

\* A second entry has been inserted next to one that was already there.
C11_Witness ==
    \E r \in Runners :
        /\ pc[r] = "exec_ret"
        /\ outcome[r] = "opened"
        /\ Cardinality(DOMAIN positions) = 2
        /\ positions[args[r].market].LongExchange = args[r].longEx
        /\ ~trace[r][1].err
        /\ ~trace[r][2].err

\* C12: a closing sequence removes its entry and releases the lock in the
\* step before its first close call: when it goes on to the close calls the
\* entry has just left the ledger, the lock is free and no call has been
\* made; every ClosePosition call is made by a goroutine past that step,
\* without the lock, and leaves the ledger alone.
C12_RemoveBeforeClose ==
    /\ [][\A r \in Runners :
             (pc[r] = "close_lock" /\ pc'[r] = "close_long") =>
                 /\ position[r].Market \in DOMAIN positions
                 /\ position[r].Market \notin DOMAIN positions'
                 /\ mu' = 0
                 /\ trace'[r] = <<>>]_vars
    /\ [][\A r \in Runners :
             (/\ trace'[r] # trace[r]
              /\ Len(trace'[r]) > 0
              /\ LastCall(r).op = "ClosePosition") =>
                 /\ pc[r] \in {"close_long", "close_short"}
                 /\ mu # r
                 /\ positions' = positions]_vars
    /\ [](\A r \in Runners :
             pc[r] \in {"close_long", "close_short"} => mu # r)

\* The first close call has been made; the entry is gone and the lock free.
C12_Witness ==
    \E r \in Runners :
        /\ pc[r] = "close_short"
        /\ Len(trace[r]) = 1
        /\ trace[r][1].op = "ClosePosition"
        /\ position[r].Market \notin DOMAIN positions
        /\ mu = 0

\* C13: a closing sequence for a position whose market has no ledger entry
\* any more is a no-op: it makes no venue call, sends no notification,
\* leaves the ledger unchanged, releases the lock, and returns to the loop,
\* which goes on to the next market.
C13_CloseIdempotent ==
    /\ [][\A r \in Runners :
             (/\ pc[r] = "close_lock"
              /\ pc'[r] # "close_lock"
              /\ position[r].Market \notin DOMAIN positions) =>
                 /\ pc'[r] = "close_ret"
                 /\ outcome'[r] = "already_closed"
                 /\ positions' = positions
                 /\ mu' = 0
                 /\ trace'[r] = <<>>
                 /\ notes'[r] = <<>>]_vars
    /\ [][\A r \in Runners :
             (/\ pc[r] = "close_ret"
              /\ outcome[r] = "already_closed"
              /\ pc'[r] # "close_ret") =>
                 /\ trace[r] = <<>>
                 /\ notes[r] = <<>>
                 /\ pc'[r] = "loop"
                 /\ i'[r] = i[r] + 1
                 /\ positions' = positions
                 /\ mu' = mu]_vars

\* A closing sequence has found its entry removed by the closing sequence of
\* another goroutine, with a notifier present.
C13_Witness ==
    \E r \in Runners, q \in Runners :
        /\ q # r
        /\ notifier
        /\ pc[r] = "close_ret"
        /\ outcome[r] = "already_closed"
        /\ pc[q] \in {"close_long", "close_short", "close_ret"}
        /\ position[q].Market = position[r].Market

\* The ClosePosition call of a closing sequence on one leg, with any result.
IsClose(call, venue, market, side, sizeUSD) ==
    /\ call.op = "ClosePosition"
    /\ call.venue = venue
    /\ call.market = market
    /\ call.side = side
    /\ call.amount = Amount(sizeUSD, market)

\* C14: once a closing sequence has removed its entry, it makes the close
\* call of the long leg once and then that of the short leg once, whatever
\* the long close returned; neither call changes the ledger, and the
\* sequence returns to the loop with exactly these two calls made.
C14_CloseBestEffort ==
    /\ [][\A r \in Runners :
             (pc[r] = "close_long" /\ pc'[r] # "close_long") =>
                 /\ pc'[r] = "close_short"
                 /\ Len(trace'[r]) = 1
                 /\ positions' = positions]_vars
    /\ [][\A r \in Runners :
             (pc[r] = "close_short" /\ pc'[r] # "close_short") =>
                 /\ pc'[r] = "close_ret"
                 /\ Len(trace'[r]) = 2
                 /\ positions' = positions]_vars
    /\ [](\A r \in Runners :
             (pc[r] = "close_ret" /\ outcome[r] # "already_closed") =>
                 /\ Len(trace[r]) = 2
                 /\ IsClose(trace[r][1], position[r].LongExchange,
                            position[r].Market, Buy, position[r].SizeUSD)
                 /\ IsClose(trace[r][2], position[r].ShortExchange,
                            position[r].Market, Sell, position[r].SizeUSD)
                 /\ position[r].Market \notin DOMAIN positions)
    /\ [][\A r \in Runners :
             (pc[r] = "close_ret" /\ pc'[r] # "close_ret") =>
                 /\ pc'[r] = "loop"
                 /\ i'[r] = i[r] + 1
                 /\ positions' = positions]_vars

\* The close of the long leg failed and the short leg was closed all the same.
C14_Witness ==
    \E r \in Runners :
        /\ pc[r] = "close_ret"
        /\ Len(trace[r]) = 2
        /\ trace[r][1].err
        /\ ~trace[r][2].err

\* C15: a GetFundingRates error from either venue ends the cycle there: the
\* failed call is the last call of the cycle, no market is evaluated, the
\* ledger and the lock are untouched, and the goroutine is back at the select
\* with nothing left over from the failed cycle, as before any other cycle.
C15_FetchFailureAbortsCycle ==
    /\ [](\A r \in Runners : \A k \in DOMAIN trace[r] :
             (trace[r][k].op = "GetFundingRates" /\ trace[r][k].err) =>
                 /\ k = Len(trace[r])
                 /\ pc[r] = "fetch_ret"
                 /\ outcome[r] = "fetch_failed")
    /\ [][\A r \in Runners :
             (pc[r] \in {"fetch1", "fetch2"} /\ pc'[r] = "fetch_ret") =>
                 /\ positions' = positions
                 /\ mu' = mu
                 /\ i'[r] = 0
                 /\ notes' = notes]_vars
    /\ [][\A r \in Runners :
             (pc[r] = "fetch_ret" /\ pc'[r] # "fetch_ret") =>
                 /\ pc'[r] = "select"
                 /\ positions' = positions
                 /\ mu' = mu]_vars
    /\ [](\A r \in Runners :
             pc[r] = "select" =>
                 /\ i[r] = 0
                 /\ snap[r] = NoSnap
                 /\ args[r] = NoArgs
                 /\ position[r] = NilPosition
                 /\ trace[r] = <<>>
                 /\ notes[r] = <<>>
                 /\ outcome[r] = "")

\* The fetch from exchange2 has failed while a position is open.
C15_Witness ==
    \E r \in Runners :
        /\ pc[r] = "fetch_ret"
        /\ Len(trace[r]) = 2
        /\ ~trace[r][1].err
        /\ trace[r][2].err
        /\ DOMAIN positions # {}

\* The places of a checkFundingRates cycle.
CyclePlaces ==
    {"fetch1", "fetch2", "fetch_ret", "loop", "eval", "exec_lock", "place_long",
     "place_short", "exec_ret", "close_lock", "close_long", "close_short",
     "close_ret"}

\* C16: at most one checkFundingRates cycle is in progress at any time; a
\* cycle starts only from the select, by taking a tick, when no cycle is in
\* progress (a tick that arrives during a cycle waits in the buffer); and
\* every venue call is made from within the cycle in progress.
C16_CyclesSequential ==
    /\ [](Cardinality({r \in Runners : pc[r] \in CyclePlaces}) <= 1)
    /\ [][\A r \in Runners :
             (pc[r] \notin CyclePlaces /\ pc'[r] \in CyclePlaces) =>
                 /\ pc[r] = "select"
                 /\ pc'[r] = "fetch1"
                 /\ ticker[r]
                 /\ ~ticker'[r]
                 /\ \A q \in Runners : pc[q] \notin CyclePlaces]_vars
    /\ [][\A r \in Runners :
             (trace'[r] # trace[r] /\ Len(trace'[r]) > 0) =>
                 pc[r] \in CyclePlaces]_vars

\* A tick has arrived while the cycle is between its two order placements.
C16_Witness ==
    /\ pc[Main] = "place_short"
    /\ ticker[Main]
    /\ Len(trace[Main]) = 1

\* C17: Run starts at the select; it returns only from the select and only
\* once the stop channel is closed; taking the stop case always ends Run; and
\* after Run has returned nothing happens any more: no cycle, no venue call,
\* no notification, no change of the ledger or the lock, no tick.
C17_StopIsFinal ==
    /\ pc[Main] = "select"
    /\ [][\A r \in Runners :
             (pc[r] # "stopped" /\ pc'[r] = "stopped") =>
                 (pc[r] = "select" /\ stop)]_vars
    /\ [](\A r \in Runners : outcome[r] = "stopping" => pc[r] = "stopped")
    /\ [][pc[Main] = "stopped" =>
             /\ pc' = pc
             /\ positions' = positions
             /\ mu' = mu
             /\ trace' = trace
             /\ notes' = notes
             /\ ticker' = ticker]_vars

\* Run has returned and left a position open.
C17_Witness ==
    /\ pc[Main] = "stopped"
    /\ outcome[Main] = "stopping"
    /\ DOMAIN positions # {}

\* C18: closing the stop channel changes nothing but the channel; a
\* goroutine inside a cycle never goes to stopped from there, it has a next
\* step of the cycle whether or not the channel is closed, and Run returns
\* only at the select, with no call in flight and the lock not held.
C18_StopWaitsForCycle ==
    /\ [][stop' # stop =>
             UNCHANGED <<config, positions, mu, ticker, pc, i, snap, args,
                         position, trace, outcome, notes>>]_vars
    /\ [][\A r \in Runners :
             pc[r] \in CyclePlaces => pc'[r] # "stopped"]_vars
    /\ [](pc[Main] \in CyclePlaces => ENABLED Work(Main))
    /\ [](\A r \in Runners :
             pc[r] = "stopped" => (trace[r] = <<>> /\ notes[r] = <<>> /\ mu # r))

\* The stop channel is closed and the opening sequence in progress has gone
\* on to record its position.
C18_Witness ==
    /\ stop
    /\ pc[Main] = "exec_ret"
    /\ outcome[Main] = "opened"

\* C19: no error of a cycle or of a venue call ends Run: a goroutine is
\* stopped only when the stop channel is closed, every return from a fetch,
\* an opening or a closing sequence leads back to the loop or the select, and
\* at the select a buffered tick can always start the next cycle.
C19_ErrorsDoNotStop ==
    /\ [](\A r \in Runners : pc[r] = "stopped" => stop)
    /\ [][\A r \in Runners :
             (pc[r] \in {"fetch_ret", "exec_ret", "close_ret"} /\ pc'[r] # pc[r]) =>
                 pc'[r] \in {"loop", "select"}]_vars
    /\ [][\A r \in Runners :
             (pc[r] = "loop" /\ pc'[r] # "loop") => pc'[r] \in {"eval", "select"}]_vars
    /\ []((pc[Main] = "select" /\ ticker[Main]) =>
             ENABLED (Run(Main) /\ pc'[Main] = "fetch1"))

\* A sequence has ended on the critical failure, the stop channel is open and
\* the next tick is already buffered.
C19_Witness ==
    /\ ~stop
    /\ ticker[Main]
    /\ pc[Main] = "exec_ret"
    /\ outcome[Main] = "short_failed_critical"

\* The configuration the data model requires: at least one market and
\* positive sizes.
ValidConfig(c) ==
    /\ Len(c.Markets) > 0
    /\ c.PositionSizeUSD > 0
    /\ c.MaxPositionUSD > 0

\* C20: with an invalid or missing configuration (no markets, non-positive
\* PositionSizeUSD or MaxPositionUSD, no config file) the trade command never
\* gets to the scheduler loop.
C20_InvalidConfigIsFatal ==
    (~ValidConfig(config) \/ configFile # "found") =>
        pc[Main] \in {"start", "fatal"}

\* C21: unless TESTNET is explicitly set to false, Run starts with venue
\* clients built with the testnet flag true, and every order and every close
\* call goes to such clients.
C21_TestnetByDefault ==
    testnetEnv # "false" =>
        /\ pc[Main] \notin {"start", "fatal"} => config.Testnet
        /\ \A r \in Runners : \A k \in DOMAIN trace[r] :
              trace[r][k].op \in {"PlaceOrder", "ClosePosition"} => config.Testnet

\* The goroutines that are between the checks of executeArbitrage and its
\* return, at one of the two order placements.
Opening == {r \in Runners : pc[r] \in {"place_long", "place_short"}}

\* C22: an opening sequence holds the lock from its checks through both
\* order placements to the insert, so at most one opening sequence is at its
\* placements at any time, whatever the markets; the insert is made by the
\* holder of the lock; and when executeArbitrage has returned, on any path,
\* the goroutine no longer holds the lock.
C22_OpenHoldsLock ==
    /\ [](\A r \in Opening : mu = r)
    /\ [](Cardinality(Opening) <= 1)
    /\ [][\A r \in Runners :
             (pc[r] = "exec_lock" /\ pc'[r] # "exec_lock") =>
                 /\ mu = 0
                 /\ mu' = (IF pc'[r] = "place_long" THEN r ELSE 0)]_vars
    /\ [][\A m \in DOMAIN positions' :
             m \notin DOMAIN positions =>
                 \E r \in Runners : mu = r /\ args[r].market = m /\ mu' = 0]_vars
    /\ [](\A r \in Runners : pc[r] = "exec_ret" => mu # r)

\* One opening sequence is at its short placement while the opening sequence
\* of another goroutine, for another market, waits for the lock.
C22_Witness ==
    \E r \in Runners, q \in Runners :
        /\ pc[r] = "place_short"
        /\ mu = r
        /\ pc[q] = "exec_lock"
        /\ args[q].market # args[r].market

\* The goroutines that are at one of the two close calls.
Closing == {r \in Runners : pc[r] \in {"close_long", "close_short"}}

\* C23: a closing sequence takes the lock only for the step that checks for
\* and removes its entry; at its close calls it does not hold the lock, and
\* its next close call can be made whoever holds the lock, also while an
\* opening sequence is at its placements.
C23_CloseCallsUnlocked ==
    /\ [][\A r \in Runners :
             (pc[r] = "close_lock" /\ pc'[r] # "close_lock") =>
                 (mu = 0 /\ mu' = 0)]_vars
    /\ [](\A r \in Closing : mu # r)
    /\ [](\A r \in Closing : ENABLED (closeLong(r) \/ closeShort(r)))
    /\ [][\A r \in Closing : pc'[r] # pc[r] => mu' = mu]_vars

\* Two closing sequences, for different markets, are at their close calls at
\* the same time.
C23_Witness ==
    /\ Cardinality(Closing) = 2
    /\ position[1].Market # position[2].Market

\* C25: an opening sequence for a market without reference price ends at the
\* checks: no order is placed, no entry is inserted and the lock is free; no
\* goroutine is ever at a placement for such a market and the ledger never
\* holds one.
C25_NoPriceAborts ==
    /\ [][\A r \in Runners :
             (/\ pc[r] = "exec_lock"
              /\ pc'[r] # "exec_lock"
              /\ Price(args[r].market) = 0) =>
                 /\ pc'[r] = "exec_ret"
                 /\ trace'[r] = <<>>
                 /\ positions' = positions
                 /\ mu' = 0
                 /\ (outcome'[r] = "no_price") <=>
                        (/\ args[r].market \notin DOMAIN positions
                         /\ getTotalPositionValue + config.PositionSizeUSD
                                <= config.MaxPositionUSD)]_vars
    /\ [](\A r \in Opening : Price(args[r].market) # 0)
    /\ [](\A m \in DOMAIN positions : Price(m) # 0)

\* An opening sequence has ended for want of a reference price.
C25_Witness ==
    \E r \in Runners :
        /\ pc[r] = "exec_ret"
        /\ outcome[r] = "no_price"
        /\ args[r].market = "SOL-USD"
        /\ trace[r] = <<>>
        /\ mu = 0

\* C26: the ledger is read and written only with the lock: the evaluator's
\* lookup, the checks of executeArbitrage and the check-and-delete of
\* closeArbitrage happen only when no goroutine holds the lock (the step
\* takes it), and the insert is made by the goroutine that holds it; so no
\* goroutine reads the map while another holds the lock to modify it.
C26_LedgerUnderLock ==
    /\ [][\A r \in Runners : Evaluates(r) => mu = 0]_vars
    /\ [][\A r \in Runners :
             (pc[r] \in {"exec_lock", "close_lock"} /\ pc'[r] # pc[r]) => mu = 0]_vars
    /\ [][positions' # positions =>
             \E r \in Runners :
                 \/ mu = r /\ pc[r] = "place_short" /\ pc'[r] = "exec_ret"
                 \/ mu = 0 /\ pc[r] = "close_lock" /\ pc'[r] # "close_lock"]_vars

\* The evaluator of one goroutine is at its lookup while another goroutine
\* holds the lock for its opening sequence.
C26_Witness ==
    \E r \in Runners, q \in Runners :
        /\ pc[r] = "eval"
        /\ snap[r].ok1
        /\ snap[r].ok2
        /\ mu = q
        /\ q # r
        /\ pc[q] = "place_short"

\* The order and close calls among the venue calls of goroutine r.
LegCalls(r) ==
    SelectSeq(trace[r], LAMBDA c : c.op \in {"PlaceOrder", "ClosePosition"})

\* C24: with the notifier nil, delivering or failing to send, each leg of an
\* opening or closing sequence makes exactly one venue call, and where the
\* sequence goes next and what the ledger holds afterwards depend on the
\* result of that venue call alone; the notifications only mirror the calls
\* (one per leg with the call's result when there is a notifier, none when
\* there is not).
C24_NotificationNonInterference ==
    /\ [][\A r \in Runners :
             /\ (pc[r] = "place_long" /\ pc'[r] # pc[r]) =>
                    /\ Len(trace'[r]) = 1
                    /\ pc'[r] = (IF LastCall(r).err THEN "exec_ret" ELSE "place_short")
                    /\ positions' = positions
             /\ (pc[r] = "place_short" /\ pc'[r] # pc[r]) =>
                    /\ Len(trace'[r]) = 2
                    /\ pc'[r] = "exec_ret"
                    /\ (args[r].market \in DOMAIN positions') <=> ~LastCall(r).err
             /\ (pc[r] = "close_long" /\ pc'[r] # pc[r]) =>
                    /\ Len(trace'[r]) = 1
                    /\ pc'[r] = "close_short"
                    /\ positions' = positions
             /\ (pc[r] = "close_short" /\ pc'[r] # pc[r]) =>
                    /\ Len(trace'[r]) = 2
                    /\ pc'[r] = "close_ret"
                    /\ positions' = positions]_vars
    /\ [](\A r \in Runners :
             IF notifier
             THEN /\ Len(notes[r]) = Len(LegCalls(r))
                  /\ \A k \in DOMAIN notes[r] :
                        /\ notes[r][k].message.failed = LegCalls(r)[k].err
                        /\ notes[r][k].message.market = LegCalls(r)[k].market
                        /\ notes[r][k].message.exchange = Name(LegCalls(r)[k].venue)
             ELSE notes[r] = <<>>)

\* A position has been recorded although neither notification of its opening
\* sequence could be sent.
C24_Witness ==
    \E r \in Runners :
        /\ pc[r] = "exec_ret"
        /\ outcome[r] = "opened"
        /\ Len(notes[r]) = 2
        /\ ~notes[r][1].delivered
        /\ ~notes[r][2].delivered

\* The number of GetFundingRates calls to a venue among the calls of r.
FetchCount(r, venue) ==
    Cardinality({k \in DOMAIN trace[r] :
                    trace[r][k].op = "GetFundingRates" /\ trace[r][k].venue = venue})

\* C27 as stated: a cycle that ends on a failed fetch has made exactly one
\* GetFundingRates call to each venue.
C27_OneFetchPerVenue ==
    \A r \in Runners :
        pc[r] = "fetch_ret" =>
            (FetchCount(r, exchange1) = 1 /\ FetchCount(r, exchange2) = 1)

\* C27 (amended): a cycle calls GetFundingRates on exchange1 exactly once, and
\* on exchange2 exactly once after exchange1's call succeeded and not at all
\* after it failed; no venue is asked twice in a cycle.
C27_FetchSequence ==
    /\ [][\A r \in Runners :
             (pc[r] = "fetch1" /\ pc'[r] # "fetch1") =>
                 /\ trace[r] = <<>>
                 /\ \/ pc'[r] = "fetch2" /\ trace'[r] = <<FetchCall(exchange1, FALSE)>>
                    \/ pc'[r] = "fetch_ret" /\ trace'[r] = <<FetchCall(exchange1, TRUE)>>]_vars
    /\ [][\A r \in Runners :
             (pc[r] = "fetch2" /\ pc'[r] # "fetch2") =>
                 /\ trace[r] = <<FetchCall(exchange1, FALSE)>>
                 /\ \/ /\ pc'[r] = "loop"
                       /\ trace'[r] = <<FetchCall(exchange1, FALSE),
                                        FetchCall(exchange2, FALSE)>>
                    \/ /\ pc'[r] = "fetch_ret"
                       /\ trace'[r] = <<FetchCall(exchange1, FALSE),
                                        FetchCall(exchange2, TRUE)>>]_vars
    /\ [](\A r \in Runners :
             /\ FetchCount(r, exchange1) <= 1
             /\ FetchCount(r, exchange2) <= 1
             /\ pc[r] = "fetch_ret" =>
                    FetchCount(r, exchange2) = (IF trace[r][1].err THEN 0 ELSE 1))
    /\ [][\A r \in Runners :
             (pc[r] \in CyclePlaces \ {"fetch1", "fetch2"} /\ trace'[r] # trace[r]
                 /\ Len(trace'[r]) > 0) =>
                 LastCall(r).op # "GetFundingRates"]_vars

\* The fetch from exchange1 has failed and exchange2 has not been asked.
C27_Witness ==
    \E r \in Runners :
        /\ pc[r] = "fetch_ret"
        /\ trace[r] = <<FetchCall(exchange1, TRUE)>>

\* C28: the tick buffer holds at most one tick; a cycle starts only by taking
\* the buffered tick and leaves the buffer empty, so after a cycle that
\* overran at most one cycle starts without a new delivery; and the buffer
\* changes only by a delivery into the empty buffer or by such a start, so no
\* more cycles start than ticks were delivered.
C28_TicksCoalesced ==
    /\ [](\A r \in Runners : ticker[r] \in BOOLEAN)
    /\ [][\A r \in Runners :
             (pc[r] = "select" /\ pc'[r] = "fetch1") =>
                 (ticker[r] /\ ~ticker'[r])]_vars
    /\ [][\A r \in Runners :
             ticker'[r] # ticker[r] =>
                 \/ ~ticker[r] /\ pc' = pc
                 \/ ticker[r] /\ pc[r] = "select" /\ pc'[r] = "fetch1"]_vars

\* A cycle is about to end and a tick that arrived during it is waiting.
C28_Witness ==
    /\ pc[Main] = "loop"
    /\ i[Main] > Len(config.Markets)
    /\ ticker[Main]

\* C29: once the stop channel is closed, Run returns in the end.
C29_ShutdownTerminates == stop ~> (pc[Main] = "stopped")

\* Run has returned although a tick was still buffered.
C29_Witness ==
    /\ stop
    /\ pc[Main] = "stopped"
    /\ ticker[Main]

\* The change an order makes to the net position of its venue, in units of
\* 1/price of the base asset.
Signed(order) == IF order.side = Buy THEN order.amount[1] ELSE -order.amount[1]

RECURSIVE NetOf(_, _)
\* The net position that a sequence of orders leaves on a venue.
NetOf(orders, venue) ==
    IF orders = <<>> THEN 0
    ELSE (IF orders[1].venue = venue THEN Signed(orders[1]) ELSE 0)
            + NetOf(Tail(orders), venue)

\* The two orders behind a ledger entry.
OpenOrders(pos) ==
    << [venue |-> pos.LongExchange, market |-> pos.Market, side |-> Buy,
        amount |-> Amount(pos.SizeUSD, pos.Market)],
       [venue |-> pos.ShortExchange, market |-> pos.Market, side |-> Sell,
        amount |-> Amount(pos.SizeUSD, pos.Market)] >>

\* C30: the entry inserted by an opening sequence stands for the two orders
\* the sequence placed (BUY on the long venue, SELL on the short venue, each
\* of PositionSizeUSD / price); the closing sequence of an entry calls
\* ClosePosition on the long venue with BUY and on the short venue with SELL,
\* each with that same amount, which places a SELL on the long venue and a
\* BUY on the short venue; and when both close calls succeed the four orders
\* leave a net position of zero on each venue.
C30_RoundTrip ==
    /\ [][\A r \in Runners :
             (pc[r] = "place_short" /\ args[r].market \in DOMAIN positions') =>
                 /\ OrderOf(trace'[r][1]) = OpenOrders(positions'[args[r].market])[1]
                 /\ OrderOf(trace'[r][2]) = OpenOrders(positions'[args[r].market])[2]
                 /\ trace'[r][1].amount = Amount(config.PositionSizeUSD, args[r].market)]_vars
    /\ [](\A r \in Runners :
             (pc[r] = "close_ret" /\ Len(trace[r]) = 2) =>
                 LET opened == OpenOrders(position[r])
                     closed == <<OrderOf(trace[r][1]), OrderOf(trace[r][2])>>
                 IN  /\ trace[r][1] = Call("ClosePosition", position[r].LongExchange,
                                           position[r].Market, Buy, opened[1].amount,
                                           trace[r][1].err)
                     /\ trace[r][2] = Call("ClosePosition", position[r].ShortExchange,
                                           position[r].Market, Sell, opened[2].amount,
                                           trace[r][2].err)
                     /\ closed[1].side = Sell
                     /\ closed[2].side = Buy
                     /\ (~trace[r][1].err /\ ~trace[r][2].err) =>
                            \A v \in Venues : NetOf(opened \o closed, v) = 0)

\* A position has been closed with both close calls successful.
C30_Witness ==
    \E r \in Runners :
        /\ pc[r] = "close_ret"
        /\ outcome[r] = "closed"
        /\ ~trace[r][1].err
        /\ ~trace[r][2].err
        /\ position[r].SizeUSD > 0

\* C31: every closing sequence that removes a ledger entry goes on to both
\* ClosePosition calls.  The ledger only holds markets for which the closing
\* sequence has a reference price, the step that removes an entry continues at
\* the close of the long leg, closeArbitrage never returns on a missing
\* price, and when it returns after a removal both closes have been called
\* for the removed entry.
C31_RemovalClosesBothLegs ==
    /\ [](\A m \in DOMAIN positions : ClosePrice(m) # 0)
    /\ [][\A r \in Runners :
            (pc[r] = "close_lock" /\ pc'[r] # "close_lock" /\ positions' # positions)
               => /\ pc'[r] = "close_long"
                  /\ outcome'[r] = "closing"]_vars
    /\ [](\A r \in Runners :
            pc[r] = "close_ret"
               => /\ outcome[r] \in {"closed", "already_closed"}
                  /\ outcome[r] = "closed"
                        => /\ Len(trace[r]) = 2
                           /\ \A k \in 1..2 :
                                 /\ trace[r][k].op = "ClosePosition"
                                 /\ trace[r][k].market = position[r].Market
                           /\ trace[r][1].venue = position[r].LongExchange
                           /\ trace[r][2].venue = position[r].ShortExchange)

\* A closing sequence has removed the ETH-USD entry and called both closes,
\* with SOL-USD, which has no reference price, among the configured markets.
C31_Witness ==
    /\ pc[Main] = "close_ret"
    /\ outcome[Main] = "closed"
    /\ position[Main].Market = "ETH-USD"
    /\ Len(trace[Main]) = 2
    /\ \E k \in DOMAIN config.Markets : Price(config.Markets[k]) = 0

\* Rate of the venue shortEx minus rate of the other venue, for rate1 - rate2
\* equal to diff.
SpreadOfShort(shortEx, diff) == IF shortEx = exchange1 THEN diff ELSE -diff

\* C32: no open/close churn at constant rates, for a threshold that is not
\* negative and venues with distinct names.  An opening sequence is triggered
\* only on rates whose spread, taken relative to the venue that gets the
\* short leg, is above the threshold; and whenever the evaluator finds a held
\* market whose spread relative to the entry's short leg is still positive,
\* above the threshold or not, it triggers nothing, leaves the ledger as it is
\* and goes to the next market.  So rates that opened a position do not close
\* it when they are observed again.
C32_NoChurn ==
    [][\A r \in Runners :
          (Evaluates(r) /\ config.MinFundingRateDiff >= 0) =>
              /\ pc'[r] = "exec_lock"
                    => SpreadOfShort(args'[r].shortEx, CurrentDiff(r))
                           > config.MinFundingRateDiff
              /\ ( /\ CurrentMarket(r) \in DOMAIN positions
                   /\ SpreadOfShort(positions[CurrentMarket(r)].ShortExchange,
                                    CurrentDiff(r)) > 0 )
                    => /\ pc'[r] = "loop"
                       /\ i'[r] = i[r] + 1
                       /\ positions' = positions]_vars

\* The evaluator is at a held market whose spread relative to the short leg
\* is positive and not above the threshold.
C32_Witness ==
    /\ pc[Main] = "eval"
    /\ snap[Main].ok1 /\ snap[Main].ok2
    /\ CurrentMarket(Main) \in DOMAIN positions
    /\ SpreadOfShort(positions[CurrentMarket(Main)].ShortExchange,
                     CurrentDiff(Main)) > 0
    /\ SpreadOfShort(positions[CurrentMarket(Main)].ShortExchange,
                     CurrentDiff(Main)) <= config.MinFundingRateDiff

\* C33: within one cycle at most one sequence, opening or closing, is
\* triggered per configured market: the evaluator does not trigger a sequence
\* for a market for which the same cycle has triggered one already, so a
\* cycle that closes a position does not open the reverse one.
C33_OneTriggerPerMarket ==
    [][\A r \in Runners :
          (pc[r] = "eval" /\ pc'[r] \in {"exec_lock", "close_lock"})
              => CurrentMarket(r) \notin triggered[r]]_vars

\* C34: with exchange1 the Lighter client, whose GetFundingRates returns an
\* error on every call, every cycle ends at the first fetch: the ledger stays
\* empty, no goroutine is ever past the first fetch, and the only venue call
\* a cycle makes is the failed GetFundingRates of exchange1, so no PlaceOrder
\* and no ClosePosition is ever called.
C34_LighterNeverTrades ==
    lighter =>
        /\ positions = EmptyLedger
        /\ \A r \in Runners :
              /\ pc[r] \in {"start", "fatal", "select", "fetch1", "fetch_ret",
                            "stopped"}
              /\ \A k \in DOMAIN trace[r] :
                    trace[r][k] = FetchCall(exchange1, TRUE)

\* With the Lighter client and a configuration that has markets, a cycle has
\* ended at the first fetch.
C34_Witness ==
    /\ lighter
    /\ config.Markets # <<>>
    /\ pc[Main] = "fetch_ret"
    /\ outcome[Main] = "fetch_failed"
    /\ trace[Main] = <<FetchCall(exchange1, TRUE)>>

\* C35: a closing sequence removes, and closes, exactly the entry the
\* evaluator read: when closeArbitrage removes an entry from the ledger, the
\* entry is the one it was called with, not one that has replaced it.
C35_CloseRemovesOwnEntry ==
    [][\A r \in Runners :
          (pc[r] = "close_lock" /\ pc'[r] # "close_lock" /\ positions' # positions)
              => positions[position[r].Market] = position[r]]_vars

\* The places where a goroutine is about to call s.mu.Lock(): the lookup of
\* the evaluator and the entry of the two sequences.
AtLock(r) == pc[r] \in {"eval", "exec_lock", "close_lock"}

\* C36: the lock discipline is deadlock-free.  A goroutine that is about to
\* take the ledger lock does not hold it; the holder of the lock is at one of
\* the two placements of its opening sequence, where it waits for no lock and
\* can take its next step; a goroutine that waits for the lock while nobody
\* holds it can take it; and outside the loop over the markets, in
\* particular when a cycle has ended, a goroutine does not hold the lock.
C36_LockDiscipline ==
    /\ mu \in Runners \cup {0}
    /\ \A r \in Runners :
          /\ AtLock(r) => mu # r
          /\ mu = r => /\ pc[r] \in {"place_long", "place_short"}
                       /\ ENABLED Work(r)
          /\ (AtLock(r) /\ mu = 0) => ENABLED Work(r)
          /\ pc[r] \in {"select", "fetch1", "fetch2", "fetch_ret", "loop",
                        "exec_ret", "close_ret", "stopped"} => mu # r

\* A goroutine waits for the lock at the entry of its closing sequence
\* while another goroutine holds it at the long placement.
C36_Witness ==
    \E r \in Runners, q \in Runners :
        /\ mu = r
        /\ pc[r] = "place_long"
        /\ pc[q] = "close_lock"

\* C37: no evaluation cycle starts after the stop channel has been closed:
\* a goroutine leaves the select for a cycle only while stop is open, also
\* when a tick is buffered at that moment.
C37_NoCycleAfterStop ==
    [][\A r \in Runners :
          (pc[r] = "select" /\ pc'[r] = "fetch1") => ~stop]_vars

\* An opening sequence for market m has just returned with its long leg
\* placed and its short leg failed: a long leg without a matching short leg.
StrayLeg(m) ==
    \E r \in Runners :
        /\ pc[r] = "exec_ret"
        /\ outcome[r] = "short_failed_critical"
        /\ args[r].market = m
        /\ Len(trace[r]) = 2
        /\ ~trace[r][1].err
        /\ trace[r][2].err

\* C38: unhedged exposure is bounded across cycles: for every market at
\* most one long leg is ever left without a matching short leg (nothing in
\* the strategy resolves a stray leg), so once an opening sequence for a
\* market has returned with a stray leg, no later opening sequence for that
\* market returns with another one.
C38_OneStrayLegPerMarket ==
    \A m \in {"BTC-USD", "ETH-USD"} :
        [](StrayLeg(m) => [](~StrayLeg(m) => []~StrayLeg(m)))
====
